---- MODULE Spec2Model ----
(***************************************************************************)
(* Model of qc.rs: the Lazy<T> sequence of src/lazy.rs (a buffer `head`    *)
(* of computed values and a queue `thunks` of deferred computations,       *)
(* driven by next()).                                                      *)
(***************************************************************************)
EXTENDS Integers, Sequences, FiniteSets, TLC

\* ---------------------------------------------------------------- bounds
MaxVal    == 2    \* element values are 1..MaxVal
MaxOps    == 2    \* most push/push_thunk/push_map calls from outside, in all
MaxPulls  == 4    \* most next() calls
UintBits  == 6    \* width of uint, scaled down
ExpDen    == 2    \* the Exp1 samples are the multiples of 1/ExpDen
MaxExp    == 17   \* the largest Exp1 sample
MaxNones  == 2    \* most calls of Iter::next after its first None
MaxSpin   == 6    \* most thunks forced when a thunk re-enqueues itself

Vals == 1..MaxVal

SeqsUpTo(S, n) == UNION {[1..k -> S] : k \in 0..n}

\* the elements lo, lo + 1, ..., hi in order
Run(lo, hi) == [i \in 1..(hi - lo + 1) |-> lo + i - 1]

\* the iterators `a: J` given to push_map, as the list of what they still
\* yield: the empty iterator and the counting iterators within Vals
Sources == {<<>>} \cup {Run(lo, hi) : lo \in Vals, hi \in Vals}

\* the vectors captured by the thunk of test_lazy_list (two shifts succeed)
Lists == {v \in Sources : Len(v) = 2}

\* the mapping functions `f: ~fn(A) -> T` given to push_map
Fns == {"double", "succ"}

\* a mapping function that fails on some elements:
\* "odd" is |x| { assert!(x % 2 == 1); x }
FailsOn(f, x) == f = "odd" /\ x % 2 = 0

Apply(f, x) ==
    CASE f = "double" -> 2 * x
      [] f = "succ"   -> x + 1
      [] f = "odd"    -> x

\* Option<T>: a sequence of at most one value
None == <<>>
Some(x) == <<x>>

NoThunk == [id |-> 0, f |-> "none", value |-> [f |-> "none", a |-> <<>>]]

\* ~Thunk { value: x, f: f }; `id` names the allocation
Thunk(id, x, f) == [id |-> id, f |-> f, value |-> x]

VARIABLES
    head,      \* Lazy.head: the computed values not yet returned
    thunks,    \* Lazy.thunks: the deferred computations not yet forced
    pc,        \* position of the caller: "idle", or inside next()
    cur,       \* the local `next` of Lazy::next: the thunk shifted off
    out,       \* the results of the next() calls so far
    ext,       \* the calls made from outside, each with Len(out) at its time
    nextId,    \* the number of thunks allocated so far
    appended,  \* every value appended to head so far, in order
    applied,   \* every application f(x) of a mapping function so far
    taken,     \* the number of elements taken from push_map sources so far
    forced,    \* the ids of the thunks invoked so far, in order
    peak,      \* the deepest nesting of thunk invocations so far
    mark,      \* the state at the start of the running next() call
    it         \* the Iter of src/arbitrary.rs and what it has yielded

vars == <<head, thunks, pc, cur, out, ext, nextId, appended, applied, taken,
          forced, peak, mark, it>>

\* The sequence together with the bookkeeping its methods update.
Self ==
    [head |-> head, thunks |-> thunks, nextId |-> nextId,
     appended |-> appended, applied |-> applied, taken |-> taken,
     forced |-> forced, depth |-> 0, peak |-> peak]

Store(L) ==
    /\ head' = L.head
    /\ thunks' = L.thunks
    /\ nextId' = L.nextId
    /\ appended' = L.appended
    /\ applied' = L.applied
    /\ taken' = L.taken
    /\ forced' = L.forced
    /\ peak' = L.peak

\* Lazy::new
New ==
    [head |-> <<>>, thunks |-> <<>>, nextId |-> 0, appended |-> <<>>,
     applied |-> <<>>, taken |-> 0, forced |-> <<>>, depth |-> 0, peak |-> 0]

\* faulty variant of push: the value goes to the front of head
push_front(L, x) ==
    [L EXCEPT !.head = <<x>> \o @, !.appended = Append(@, x)]

\* Lazy::push
push(L, x) ==
    [L EXCEPT !.head = Append(@, x), !.appended = Append(@, x)]

\* faulty variant of push_thunk: the thunk goes to the front of thunks
push_thunk_front(L, x, f) ==
    [L EXCEPT !.thunks = <<Thunk(L.nextId + 1, x, f)>> \o @,
              !.nextId = @ + 1]

\* Lazy::push_thunk
push_thunk(L, x, f) ==
    [L EXCEPT !.thunks = Append(@, Thunk(L.nextId + 1, x, f)),
              !.nextId = @ + 1]

\* faulty variant of push_map: the first element is mapped at once
push_map_eager(L, a, f) ==
    IF a = <<>>
    THEN push_thunk(L, [f |-> f, a |-> a], "map")
    ELSE LET L1 == [L EXCEPT !.taken = @ + 1,
                             !.applied = Append(@, <<f, Head(a)>>)]
         IN  push_thunk(push(L1, Apply(f, Head(a))),
                        [f |-> f, a |-> Tail(a)], "map")

\* Lazy::push_map: one thunk over (f, a), nothing taken from a
push_map(L, a, f) == push_thunk(L, [f |-> f, a |-> a], "map")

\* entry of Thunk::call: one more invocation is active
enter(L, t) ==
    LET d == L.depth + 1
    IN  [L EXCEPT !.depth = d,
                  !.peak = IF d > @ THEN d ELSE @,
                  !.forced = Append(@, t.id)]

\* return of Thunk::call
leave(L) == [L EXCEPT !.depth = @ - 1]

\* faulty variant of MapBody: the mapped value is pushed without applying f
MapBody_raw(L, v) ==
    IF v.a = <<>>
    THEN L
    ELSE LET x  == Head(v.a)
             L1 == [L EXCEPT !.taken = @ + 1]
         IN  push_map(push(L1, x), Tail(v.a), v.f)

\* faulty variant of MapBody: the whole source is mapped in one forcing
RECURSIVE MapBody_eager(_, _)
MapBody_eager(L, v) ==
    IF v.a = <<>>
    THEN L
    ELSE LET x  == Head(v.a)
             L1 == [L EXCEPT !.taken = @ + 1,
                             !.applied = Append(@, <<v.f, x>>)]
         IN  MapBody_eager(push(L1, Apply(v.f, x)), [v EXCEPT !.a = Tail(@)])

\* faulty variant of MapBody: the rest of the chain is invoked, not enqueued
RECURSIVE MapBody_nested(_, _)
MapBody_nested(L, v) ==
    IF v.a = <<>>
    THEN L
    ELSE LET x  == Head(v.a)
             L1 == [L EXCEPT !.taken = @ + 1,
                             !.applied = Append(@, <<v.f, x>>)]
             L2 == push(L1, Apply(v.f, x))
             t  == Thunk(L2.nextId + 1, [f |-> v.f, a |-> Tail(v.a)], "map")
             L3 == [L2 EXCEPT !.nextId = @ + 1]
         IN  leave(MapBody_nested(enter(L3, t), t.value))

\* faulty variant of MapBody: the rest of the source is scheduled twice
MapBody_dup(L, v) ==
    IF v.a = <<>>
    THEN L
    ELSE LET x  == Head(v.a)
             L1 == [L EXCEPT !.taken = @ + 1,
                             !.applied = Append(@, <<v.f, x>>)]
         IN  push_map(push_map(push(L1, Apply(v.f, x)), Tail(v.a), v.f),
                      Tail(v.a), v.f)

\* faulty variant of MapBody: an exhausted source is re-scheduled too
MapBody_requeue(L, v) ==
    IF v.a = <<>>
    THEN push_map(L, v.a, v.f)
    ELSE LET x  == Head(v.a)
             L1 == [L EXCEPT !.taken = @ + 1,
                             !.applied = Append(@, <<v.f, x>>)]
         IN  push_map(push(L1, Apply(v.f, x)), Tail(v.a), v.f)

\* the closure of push_map, run on its captured (f, a)
MapBody(L, v) ==
    IF v.a = <<>>
    THEN L
    ELSE LET x  == Head(v.a)
             L1 == [L EXCEPT !.taken = @ + 1,
                             !.applied = Append(@, <<v.f, x>>)]
         IN  push_map(push(L1, Apply(v.f, x)), Tail(v.a), v.f)

\* the inner closure of test_lazy_list: L.push(v.shift())
InnerBody(L, v) == push(L, Head(v.a))

\* faulty variant of OuterBody: the inner thunk captures v before the shift
OuterBody_keep(L, v) ==
    push_thunk(push(L, Head(v.a)), [f |-> "none", a |-> v.a], "inner")

\* the outer closure of test_lazy_list: L.push(v.shift()), then a thunk on v
OuterBody(L, v) ==
    push_thunk(push(L, Head(v.a)), [f |-> "none", a |-> Tail(v.a)], "inner")

\* a caller's closure |x, L| { L.push_thunk(x, again) }: it pushes no value
\* and enqueues a fresh thunk of the same closure
AgainBody(L, v) == push_thunk(L, v, "again")

\* Thunk::call: (self.f)(self.value, x)
call(t, L) ==
    LET L1 == enter(L, t)
    IN  leave(CASE t.f = "map"   -> MapBody(L1, t.value)
                [] t.f = "outer" -> OuterBody(L1, t.value)
                [] t.f = "inner" -> InnerBody(L1, t.value)
                [] t.f = "again" -> AgainBody(L1, t.value))

\* the invocation of t fails: f fails on the element the push_map closure
\* took, or t is the caller's closure |x, L| { L.push(x); fail!() }
Fails(t) ==
    CASE t.f = "map"       -> /\ t.value.a # <<>>
                              /\ FailsOn(t.value.f, Head(t.value.a))
      [] t.f = "push_fail" -> TRUE
      [] OTHER             -> FALSE

\* faulty variant of AtFailure: the push_map closure re-schedules the rest
\* of the source before it applies f
AtFailure_rescheduled(t, L) ==
    CASE t.f = "map" ->
            push_map([L EXCEPT !.taken = @ + 1,
                               !.applied = Append(@, <<t.value.f, Head(t.value.a)>>)],
                     Tail(t.value.a), t.value.f)
      [] t.f = "push_fail" -> push(L, Head(t.value.a))

\* the sequence at the point where the invocation of t fails: the push_map
\* closure has taken one element and f failed on it before L.push; the
\* caller's closure has pushed its value
AtFailure(t, L) ==
    CASE t.f = "map" ->
            [L EXCEPT !.taken = @ + 1,
                      !.applied = Append(@, <<t.value.f, Head(t.value.a)>>)]
      [] t.f = "push_fail" -> push(L, Head(t.value.a))

\* ------------------------------------------------- the calls from outside
PushOp(x)      == [op |-> "push", f |-> "none", a |-> <<x>>]
PushThunkOp(v) == [op |-> "push_thunk", f |-> "outer", a |-> v]
\* push_thunk with a closure c of the caller
ClientOp(c, v) == [op |-> "push_thunk", f |-> c, a |-> v]
PushMapOp(a, f) == [op |-> "push_map", f |-> f, a |-> a]

Ops == {PushOp(x) : x \in Vals}
       \cup {PushThunkOp(v) : v \in Lists}
       \cup {PushMapOp(a, f) : a \in Sources, f \in Fns}

\* one call on the handle L
DoOp(L, o) ==
    CASE o.op = "push"       -> push(L, o.a[1])
      [] o.op = "push_thunk" -> push_thunk(L, [f |-> "none", a |-> o.a], o.f)
      [] o.op = "push_map"   -> push_map(L, o.a, o.f)

RECURSIVE RunSetup(_, _)
RunSetup(L, setup) ==
    IF setup = <<>> THEN L
    ELSE RunSetup(DoOp(L, Head(setup)), Tail(setup))

\* Lazy::create: a new sequence, handed to the setup routine f
create(setup) == RunSetup(New, setup)

\* the setup routines f handed to Lazy::create, as the calls they make
Setups == SeqsUpTo(Ops, MaxOps)

Logged(o, n) == [op |-> o.op, f |-> o.f, a |-> o.a, at |-> n]

\* no Iter has been built
NoIter == [count |-> 0, size |-> 0, n |-> 0, yielded |-> 0, nones |-> 0]

NoMark == [head |-> <<>>, thunks |-> <<>>, forced |-> 0, applied |-> 0,
           taken |-> 0, appended |-> 0]

\* the state when Lazy::create(setup) has returned
Built(setup) ==
        LET L == create(setup) IN
        /\ head = L.head
        /\ thunks = L.thunks
        /\ nextId = L.nextId
        /\ appended = L.appended
        /\ applied = L.applied
        /\ taken = L.taken
        /\ forced = L.forced
        /\ peak = L.peak
        /\ ext = [i \in 1..Len(setup) |-> Logged(setup[i], 0)]
        /\ pc = "idle"
        /\ cur = NoThunk
        /\ out = <<>>
        /\ mark = NoMark
        /\ it = NoIter

Init == \E setup \in Setups : Built(setup)

\* a call of push, push_thunk or push_map by the owner, between next() calls
Outside(o) ==
    /\ pc = "idle"
    /\ Len(ext) < MaxOps
    /\ Store(DoOp(Self, o))
    /\ ext' = Append(ext, Logged(o, Len(out)))
    /\ UNCHANGED <<pc, cur, out, mark, it>>

Push == \E x \in Vals : Outside(PushOp(x))

PushThunk == \E v \in Lists : Outside(PushThunkOp(v))

PushMap == \E a \in Sources, f \in Fns : Outside(PushMapOp(a, f))

\* next() is entered
NextBegin ==
    /\ pc = "idle"
    /\ Len(out) < MaxPulls
    /\ pc' = "loop"
    /\ mark' = [head |-> head, thunks |-> thunks, forced |-> Len(forced),
                applied |-> Len(applied), taken |-> taken,
                appended |-> Len(appended)]
    /\ UNCHANGED <<head, thunks, cur, out, ext, nextId, appended, applied,
                   taken, forced, peak, it>>

\* faulty variant of LoopGuard: the last thunk is never forced
LoopGuard_short(h, t) == Len(h) = 0 /\ Len(t) > 1

\* faulty variant of LoopGuard: thunks are forced whatever head holds
LoopGuard_any(h, t) == Len(t) > 0

\* while self.head.len() == 0 && self.thunks.len() > 0
LoopGuard(h, t) == Len(h) = 0 /\ Len(t) > 0

\* faulty variant of NextShift: the thunk enqueued last is taken
NextShift_pop ==
    /\ pc = "loop"
    /\ LoopGuard(head, thunks)
    /\ cur' = thunks[Len(thunks)]
    /\ thunks' = SubSeq(thunks, 1, Len(thunks) - 1)
    /\ pc' = "shifted"
    /\ UNCHANGED <<head, out, ext, nextId, appended, applied, taken, forced,
                   peak, mark, it>>

\* faulty variant of NextShift: the thunk is read but stays in the queue
NextShift_peek ==
    /\ pc = "loop"
    /\ LoopGuard(head, thunks)
    /\ cur' = Head(thunks)
    /\ pc' = "shifted"
    /\ UNCHANGED <<head, thunks, out, ext, nextId, appended, applied, taken,
                   forced, peak, mark, it>>

\* let next = self.thunks.shift()
NextShift ==
    /\ pc = "loop"
    /\ LoopGuard(head, thunks)
    /\ cur' = Head(thunks)
    /\ thunks' = Tail(thunks)
    /\ pc' = "shifted"
    /\ UNCHANGED <<head, out, ext, nextId, appended, applied, taken, forced,
                   peak, mark, it>>

\* faulty variant of AfterCall: an `if` in place of the `while`
AfterCall_once == "test"

\* where control goes after next.call(self): back to the loop condition
AfterCall == "loop"

\* next.call(self)
NextCall ==
    /\ pc = "shifted"
    /\ ~Fails(cur)
    /\ Store(call(cur, Self))
    /\ cur' = NoThunk
    /\ pc' = AfterCall
    /\ UNCHANGED <<out, ext, mark, it>>

\* the loop is left
NextExit ==
    /\ pc = "loop"
    /\ ~LoopGuard(head, thunks)
    /\ pc' = "test"
    /\ UNCHANGED <<head, thunks, cur, out, ext, nextId, appended, applied,
                   taken, forced, peak, mark, it>>

\* faulty variant of NextReturn: a single value in head is not returned
NextReturn_short ==
    /\ pc = "test"
    /\ IF Len(head) > 1
       THEN /\ out' = Append(out, Some(Head(head)))
            /\ head' = Tail(head)
       ELSE /\ out' = Append(out, None)
            /\ head' = head
    /\ pc' = "idle"
    /\ UNCHANGED <<thunks, cur, ext, nextId, appended, applied, taken, forced,
                   peak, mark, it>>

\* faulty variant of NextReturn: the value returned stays in head
NextReturn_peek ==
    /\ pc = "test"
    /\ IF Len(head) > 0
       THEN /\ out' = Append(out, Some(Head(head)))
            /\ head' = head
       ELSE /\ out' = Append(out, None)
            /\ head' = head
    /\ pc' = "idle"
    /\ UNCHANGED <<thunks, cur, ext, nextId, appended, applied, taken, forced,
                   peak, mark, it>>

\* if self.head.len() > 0 { Some(self.head.shift()) } else { None }
NextReturn ==
    /\ pc = "test"
    /\ IF Len(head) > 0
       THEN /\ out' = Append(out, Some(Head(head)))
            /\ head' = Tail(head)
       ELSE /\ out' = Append(out, None)
            /\ head' = head
    /\ pc' = "idle"
    /\ UNCHANGED <<thunks, cur, ext, nextId, appended, applied, taken, forced,
                   peak, mark, it>>

Next ==
    \/ Push
    \/ PushThunk
    \/ PushMap
    \/ NextBegin
    \/ NextShift
    \/ NextCall
    \/ NextExit
    \/ NextReturn

Spec == Init /\ [][Next]_vars

\* ------------------------------------------- a sequence that is only pulled
\* the steps of a next() call that has been entered
NextRun ==
    \/ NextShift
    \/ NextCall
    \/ NextExit
    \/ NextReturn

NextPull ==
    \/ NextBegin
    \/ NextShift
    \/ NextCall
    \/ NextExit
    \/ NextReturn

\* a created sequence whose owner only calls next(); a call that has been
\* entered keeps running
SpecLive == Init /\ [][NextPull]_vars /\ WF_vars(NextRun)

\* ------------------------------------------ a thunk that re-enqueues itself
\* the calls a setup routine makes, the closure `again` among them
OpsSpin ==
    {PushOp(x) : x \in Vals}
    \cup {PushMapOp(a, "double") : a \in Sources}
    \cup {ClientOp("again", <<x>>) : x \in Vals}

InitSpin == \E setup \in SeqsUpTo(OpsSpin, MaxOps) : Built(setup)

\* NextShift, followed for the first MaxSpin forcings
SpinShift == Len(forced) < MaxSpin /\ NextShift

NextSpin ==
    \/ NextBegin
    \/ SpinShift
    \/ NextCall
    \/ NextExit
    \/ NextReturn

SpecSpin == InitSpin /\ [][NextSpin]_vars

\* ------------------------------------------------ failing computations
\* next.call(self) fails: the task unwinds out of next()
NextCallFails ==
    /\ pc = "shifted"
    /\ Fails(cur)
    /\ Store(AtFailure(cur, enter(Self, cur)))
    /\ cur' = NoThunk
    /\ pc' = "failed"
    /\ UNCHANGED <<out, ext, mark, it>>

\* the calls a setup routine makes when computations may fail
OpsFail ==
    {PushOp(x) : x \in Vals}
    \cup {PushMapOp(a, f) : a \in Sources, f \in {"double", "odd"}}
    \cup {ClientOp("push_fail", <<x>>) : x \in Vals}

InitFail == \E setup \in SeqsUpTo(OpsFail, MaxOps) : Built(setup)

NextFail ==
    \/ NextBegin
    \/ NextShift
    \/ NextCall
    \/ NextCallFails
    \/ NextExit
    \/ NextReturn

SpecFail == InitFail /\ [][NextFail]_vars

\* ------------------------------------------------------------ observations
\* the values returned so far by next()
Returned ==
    LET s == SelectSeq(out, LAMBDA r : r # None)
    IN  [i \in 1..Len(s) |-> s[i][1]]

\* the values pushed from outside, in call order
PushedVals ==
    LET p == SelectSeq(ext, LAMBDA o : o.op = "push")
    IN  [i \in 1..Len(p) |-> p[i].a[1]]

\* every call from outside came before the first next()
SeededOnly == \A i \in DOMAIN ext : ext[i].at = 0

\* what the j-th next() returns when the values s are delivered in order
Expect(s, j) == IF j <= Len(s) THEN Some(s[j]) ELSE None

Delivers(s) == \A j \in DOMAIN out : out[j] = Expect(s, j)

MapImage(a, f) == [i \in 1..Len(a) |-> Apply(f, a[i])]

Ids(q) == {q[i].id : i \in DOMAIN q}

\* the only call from outside is one push_map, made before the first next()
OneMapChain == Len(ext) = 1 /\ ext[1].op = "push_map" /\ ext[1].at = 0

\* ------------------------------------------------------------------ claims

\* C1: a sequence built only from push(v1), ..., push(vn) returns Some(v1),
\* ..., Some(vn) from successive next() calls, in that order, and None from
\* every later call.
C1_PushOnlyOrder ==
    (SeededOnly /\ \A i \in DOMAIN ext : ext[i].op = "push")
        => Delivers(PushedVals)

C1_Witness ==
    /\ SeededOnly
    /\ Len(ext) = 2 /\ ext[1].op = "push" /\ ext[2].op = "push"
    /\ ext[1].a # ext[2].a
    /\ out = <<Some(ext[1].a[1]), Some(ext[2].a[1]), None, None>>

\* C2: a sequence seeded only with push_map(a, f) returns Some(f(a1)), ...,
\* Some(f(an)) from successive next() calls, in source order, and then None.
C2_MapOrder ==
    OneMapChain => Delivers(MapImage(ext[1].a, ext[1].f))

C2_Witness ==
    /\ OneMapChain
    /\ ext[1].a = <<1, 2>> /\ ext[1].f = "double"
    /\ out = <<Some(2), Some(4), None>>

\* C3: with one push_map chain as the only work, a next() call takes at most
\* one element from the source and applies f at most once, elements are
\* mapped in source order, and f(a_k) is computed only after f(a_1), ...,
\* f(a_(k-1)) have been returned.
C3_MapLazy ==
    OneMapChain =>
        /\ Len(applied) - mark.applied <= 1
        /\ taken - mark.taken <= 1
        /\ taken = Len(applied)
        /\ Len(applied) <= Len(Returned) + 1
        /\ \A k \in DOMAIN applied : applied[k] = <<ext[1].f, ext[1].a[k]>>

C3_Witness ==
    /\ OneMapChain
    /\ Len(ext[1].a) = 2
    /\ pc = "loop"
    /\ Len(applied) = 2 /\ mark.applied = 1
    /\ Len(Returned) = 1

\* C4: seeded with pushed values and one thunk over a list that pushes the
\* list's head and enqueues a thunk for the rest, the sequence delivers the
\* pushed values, then the list in order, one per next() call, then None.
C4_ListThunk ==
    (/\ SeededOnly
     /\ Cardinality({i \in DOMAIN ext : ext[i].op = "push_thunk"}) = 1
     /\ \A i \in DOMAIN ext : ext[i].op \in {"push", "push_thunk"})
        => LET i == CHOOSE k \in DOMAIN ext : ext[k].op = "push_thunk"
           IN  Delivers(PushedVals \o ext[i].a)

C4_Witness ==
    /\ SeededOnly
    /\ Len(ext) = 2 /\ ext[1].op = "push" /\ ext[2].op = "push_thunk"
    /\ ext[2].a[1] # ext[2].a[2]
    /\ out = <<Some(ext[1].a[1]), Some(ext[2].a[1]), Some(ext[2].a[2]), None>>

\* C5: every thunk is invoked at most once, is out of the queue when it is
\* invoked, and never returns to the queue; what is queued is always a
\* thunk that has not been invoked.
C5_SingleShot ==
    /\ \A i, j \in DOMAIN forced : i # j => forced[i] # forced[j]
    /\ pc = "shifted" => cur.id \notin Ids(thunks)
    /\ \A i \in DOMAIN forced : forced[i] \notin Ids(thunks)
    /\ \A i, j \in DOMAIN thunks : i # j => thunks[i].id # thunks[j].id

C5_Witness ==
    /\ pc = "shifted"
    /\ Len(forced) >= 2
    /\ thunks # <<>>

\* C6: nothing is forced outside next(): push appends its value to head and
\* leaves thunks alone, push_thunk and push_map append exactly one thunk and
\* leave head alone, push_map takes nothing from its source and applies no
\* f, and after Lazy::create no thunk has been invoked.
C6_Built ==
    (pc = "idle" /\ out = <<>>) =>
        /\ forced = <<>> /\ applied = <<>> /\ taken = 0
        /\ head = PushedVals
        /\ Len(thunks) = Len(ext) - Len(PushedVals)

C6_Step ==
    (pc = "idle" /\ pc' = "idle" /\ ext' # ext) =>
        LET o == ext'[Len(ext')] IN
        /\ forced' = forced /\ applied' = applied /\ taken' = taken
        /\ o.op = "push" =>
              head' = Append(head, o.a[1]) /\ thunks' = thunks
        /\ o.op = "push_thunk" =>
              /\ head' = head
              /\ Len(thunks') = Len(thunks) + 1
              /\ SubSeq(thunks', 1, Len(thunks)) = thunks
              /\ thunks'[Len(thunks')].value = [f |-> "none", a |-> o.a]
        /\ o.op = "push_map" =>
              /\ head' = head
              /\ Len(thunks') = Len(thunks) + 1
              /\ SubSeq(thunks', 1, Len(thunks)) = thunks
              /\ thunks'[Len(thunks')].value = [f |-> o.f, a |-> o.a]

C6_NoForcingOutside == [](C6_Built) /\ [][C6_Step]_vars

C6_Witness ==
    /\ pc = "idle"
    /\ Len(ext) = 2 /\ ext[1].op = "push_map" /\ ext[1].a # <<>>
    /\ ext[2].op = "push_map" /\ ext[2].at = 1 /\ ext[2].a # <<>>
    /\ Len(out) = 1
    /\ Len(thunks) = 2

\* C7: next() invokes a thunk only while head is empty: a call that starts
\* with head non-empty returns the head value and forces nothing, and a call
\* that starts with head empty stops forcing once a value has been appended.
C7_MinimalForcing ==
    /\ pc = "shifted" => head = <<>> /\ Len(appended) = mark.appended
    /\ (pc # "idle" /\ mark.head # <<>>) =>
          /\ thunks = mark.thunks
          /\ Len(forced) = mark.forced
          /\ head = mark.head
    /\ (pc # "idle" /\ mark.head = <<>>) =>
          LET k == Len(forced) - mark.forced
              n == Len(mark.thunks)
              q == IF pc = "shifted" THEN <<cur>> \o thunks ELSE thunks
          IN  /\ k <= n
              /\ Len(q) >= n - k
              /\ SubSeq(mark.thunks, k + 1, n) = SubSeq(q, 1, n - k)
              /\ (pc = "test" /\ k > 0 /\ q # <<>>) => head # <<>>

C7_Return ==
    (pc = "test" /\ pc' = "idle" /\ mark.head # <<>>) =>
        /\ out' = Append(out, Some(Head(mark.head)))
        /\ thunks' = mark.thunks

C7_NextForcesLeast == [](C7_MinimalForcing) /\ [][C7_Return]_vars

C7_Witness ==
    /\ pc = "test"
    /\ mark.head = <<>>
    /\ Len(forced) = mark.forced + 2
    /\ head # <<>>
    /\ thunks # <<>>

\* C8: values leave in the order they were appended to head and thunks are
\* forced in the order they were enqueued; with every outside call made
\* before the first next(), the directly pushed values are returned first.
C8_Order ==
    /\ Returned \o head = appended
    /\ forced = [i \in 1..Len(forced) |-> i]
    /\ LET q == IF pc = "shifted" THEN <<cur>> \o thunks ELSE thunks
       IN  \A i \in DOMAIN q : q[i].id = Len(forced) + i
    /\ SeededOnly =>
          \A j \in DOMAIN out : j <= Len(PushedVals) => out[j] = Some(PushedVals[j])

C8_Witness ==
    /\ SeededOnly
    /\ Len(ext) = 2 /\ ext[1].op = "push_thunk" /\ ext[2].op = "push"
    /\ Len(out) = 3
    /\ Len(forced) = 2

\* C9: once next() has returned None and nothing is pushed from outside
\* afterwards, every later next() returns None, invokes no thunk and leaves
\* head and thunks empty.
C9_TerminalIdempotent ==
    \A i \in DOMAIN out :
        (out[i] = None /\ \A k \in DOMAIN ext : ext[k].at < i) =>
            /\ \A j \in i..Len(out) : out[j] = None
            /\ head = <<>> /\ thunks = <<>>
            /\ pc # "shifted"
            /\ (Len(out) > i \/ pc # "idle") => Len(forced) = mark.forced

C9_Witness ==
    /\ Len(out) = 4 /\ out[2] = None /\ out[4] = None
    /\ out[1] # None
    /\ \A k \in DOMAIN ext : ext[k].at < 2
    /\ Len(forced) >= 2

\* C10: while next() drives a push_map chain the continuation is enqueued,
\* never invoked from inside the running thunk: at most one thunk invocation
\* is active at any moment, whatever the length of the chain.
C10_Trampoline ==
    /\ peak <= 1
    /\ forced # <<>> => peak = 1

C10_Witness ==
    /\ OneMapChain
    /\ Len(forced) = 3
    /\ peak = 1

\* --------------------------------------------- src/arbitrary.rs: Iter
UintMod == 2 ^ UintBits

\* the factor of n.min(&(16 * size))
Cap == 16

\* the size parameters: up to where 16 * size wraps
Sizes == 0..(UintMod \div Cap + 1)

\* the random Exp1 samples f, as the numerators q of f = q / ExpDen
Samples == 0..(MaxExp * ExpDen)

\* faulty variant of small_n: the count is not capped
small_n_uncapped(size, q, u) ==
    LET raw == (q * size) \div ExpDen
    IN  IF raw < UintMod THEN raw ELSE u

\* small_n, for the sample q / ExpDen; u is what the cast `as uint` gives
\* when f * size is out of the range of uint
small_n(size, q, u) ==
    LET raw == (q * size) \div ExpDen
        n   == IF raw < UintMod THEN raw ELSE u
        cap == (Cap * size) % UintMod
    IN  IF n < cap THEN n ELSE cap

\* arbiter: Iter{count: small_n(sz), size: sz}
arbiter(sz, q, u) ==
    LET c == small_n(sz, q, u)
    IN  [count |-> c, size |-> sz, n |-> c, yielded |-> 0, nones |-> 0]

InitArb ==
    /\ \E sz \in Sizes, q \in Samples, u \in 0..(UintMod - 1) :
          it = arbiter(sz, q, u)
    /\ head = <<>> /\ thunks = <<>> /\ nextId = 0 /\ appended = <<>>
    /\ applied = <<>> /\ taken = 0 /\ forced = <<>> /\ peak = 0
    /\ ext = <<>> /\ pc = "idle" /\ cur = NoThunk /\ out = <<>>
    /\ mark = NoMark

\* Iter::next, as arbiter(sz).collect() and later callers drive it
IterNext ==
    /\ IF it.count > 0
       THEN it' = [it EXCEPT !.count = @ - 1, !.yielded = @ + 1]
       ELSE /\ it.nones < MaxNones
            /\ it' = [it EXCEPT !.nones = @ + 1]
    /\ UNCHANGED <<head, thunks, pc, cur, out, ext, nextId, appended,
                   applied, taken, forced, peak, mark>>

SpecArb == InitArb /\ [][IterNext]_vars

IsPrefix(s, t) == Len(s) <= Len(t) /\ SubSeq(t, 1, Len(s)) = s

\* C11 as stated: when a forced computation fails, head and thunks are as
\* they were just before it was dequeued, minus the dequeued computation:
\* nothing of the failing computation is present and it is not re-queued.
C11_StepAsClaimed ==
    (pc = "shifted" /\ pc' = "failed") =>
        /\ out' = out
        /\ head' = head
        /\ thunks' = thunks
        /\ cur.id \notin Ids(thunks')

C11_AsClaimed == [][C11_StepAsClaimed]_vars

\* C11, amended: when a forced computation fails, the failure leaves next()
\* without a result, the failed computation is not re-queued, and head and
\* thunks are as they were just before it was dequeued, minus the dequeued
\* computation, extended by what the computation had appended before it
\* failed; when f of push_map fails, nothing was appended.
C11_Step ==
    (pc = "shifted" /\ pc' = "failed") =>
        /\ out' = out
        /\ cur.id \notin Ids(thunks')
        /\ IsPrefix(head, head')
        /\ IsPrefix(thunks, thunks')
        /\ cur.f = "map" => head' = head /\ thunks' = thunks

C11_FailureLeavesRest == [][C11_Step]_vars

C11_Witness ==
    /\ pc = "failed"
    /\ Len(out) >= 1
    /\ thunks # <<>>
    /\ applied # <<>>
    /\ applied[Len(applied)] = <<"odd", 2>>

\* C12: small_n(size) is at most 16 * size, so small_n(0) = 0, and the
\* iterator of arbiter(size) yields exactly small_n(size) elements and then
\* None on every later call: a generated vector has at most 16 * size
\* elements.
C12_CountBounded ==
    /\ it.n <= Cap * it.size
    /\ it.size = 0 => it.n = 0
    /\ it.count + it.yielded = it.n
    /\ it.yielded <= Cap * it.size
    /\ it.nones > 0 => it.count = 0 /\ it.yielded = it.n

C12_Witness ==
    /\ it.size = 2
    /\ it.n = Cap * it.size
    /\ it.yielded = it.n
    /\ it.nones = 2

\* C13: next() returns None only when head and thunks are both empty, and
\* never while a thunk is still queued or a value is still in head.
C13_AtReturn == pc = "test" => (head # <<>> \/ thunks = <<>>)

C13_Step ==
    (pc = "test" /\ pc' = "idle") =>
        (out' = Append(out, None)) <=> (head = <<>> /\ thunks = <<>>)

C13_NoneOnlyExhausted == [](C13_AtReturn) /\ [][C13_Step]_vars

C13_Witness ==
    /\ pc = "idle"
    /\ Len(ext) = 2 /\ ext[2].at = 1 /\ ext[2].op = "push_map"
    /\ out # <<>> /\ out[Len(out)] = None
    /\ Len(forced) >= 3

\* C14: every next() call terminates when the work reachable from thunks is
\* finite; for a sequence seeded only with push_map over a source of length
\* n, exactly n + 1 next() calls are needed to see None, and the last one
\* forces the thunk that finds the source empty.
C14_MapCalls ==
    OneMapChain =>
        LET n == Len(ext[1].a) IN
        /\ \A j \in DOMAIN out : (out[j] = None) <=> (j >= n + 1)
        /\ Len(forced) <= n + 1
        /\ Len(out) >= n + 1 => Len(forced) = n + 1 /\ taken = n
        /\ (Len(out) = n + 1 /\ pc = "idle") => mark.forced = n

C14_NextTerminates ==
    /\ [](C14_MapCalls)
    /\ (pc # "idle") ~> (pc = "idle")

C14_Witness ==
    /\ OneMapChain
    /\ Len(ext[1].a) = 2
    /\ pc = "idle"
    /\ Len(out) = 3 /\ out[3] = None
    /\ Len(forced) = 3 /\ mark.forced = 2

\* the thunks not yet invoked, the shifted one first
Queue == IF pc = "shifted" THEN <<cur>> \o thunks ELSE thunks

\* a next() call is running with head empty and only `again` thunks queued
Spinning ==
    /\ pc \in {"loop", "shifted"}
    /\ head = <<>>
    /\ Queue # <<>>
    /\ \A i \in DOMAIN Queue : Queue[i].f = "again"

\* C15: a thunk that pushes no value and enqueues a fresh copy of itself
\* keeps the next() call in its loop: each iteration forces one thunk, head
\* stays empty, next() returns neither Some nor None, and no failure is
\* raised.
C15_Step ==
    Spinning =>
        /\ Spinning'
        /\ out' = out
        /\ Len(forced') <= Len(forced) + 1
        /\ pc = "loop" => pc' = "shifted" /\ cur' = Head(thunks)
        /\ pc = "shifted" =>
              /\ pc' = "loop"
              /\ forced' = Append(forced, cur.id)
              /\ Len(thunks') = Len(thunks) + 1
              /\ thunks'[Len(thunks')].id # cur.id
              /\ thunks'[Len(thunks')].f = "again"
              /\ thunks'[Len(thunks')].value = cur.value

C15_SpinsForever == [][C15_Step]_vars

C15_Witness ==
    /\ Spinning
    /\ pc = "loop"
    /\ Len(forced) - mark.forced >= 3
    /\ Len(out) >= 1

\* the number of push_map thunks not yet invoked
MapThunks == Cardinality({i \in DOMAIN Queue : Queue[i].f = "map"})

MapCalls == Cardinality({i \in DOMAIN ext : ext[i].op = "push_map"})

\* C16: forcing a push_map thunk either appends f(a) for the next source
\* element a and enqueues exactly one push_map thunk over the rest of the
\* source with the same f, or, on an exhausted source, appends and enqueues
\* nothing; so at most one thunk per push_map call is pending.
C16_Step ==
    (pc = "shifted" /\ cur.f = "map" /\ pc' = "loop") =>
        LET v == cur.value IN
        IF v.a # <<>>
        THEN /\ head' = Append(head, Apply(v.f, Head(v.a)))
             /\ Len(thunks') = Len(thunks) + 1
             /\ SubSeq(thunks', 1, Len(thunks)) = thunks
             /\ thunks'[Len(thunks')].f = "map"
             /\ thunks'[Len(thunks')].value = [f |-> v.f, a |-> Tail(v.a)]
             /\ thunks'[Len(thunks')].id # cur.id
        ELSE /\ head' = head
             /\ thunks' = thunks

C16_MapThunkStep == [](MapThunks <= MapCalls) /\ [][C16_Step]_vars

C16_Witness ==
    /\ Len(ext) = 2 /\ ext[1].op = "push_map" /\ ext[2].op = "push_map"
    /\ ext[1].a # <<>> /\ ext[2].a # <<>>
    /\ pc = "loop"
    /\ Len(forced) = 4
    /\ MapThunks = 1

\* the calls made from outside after the n-th next() call and before the
\* following one
CallsAfter(n) == SelectSeq(ext, LAMBDA o : o.at = n)

\* C18: exhaustion is not permanent: after next() has returned None, a
\* push(x) makes the following next() return Some(x), a push_thunk or
\* push_map makes the following next() force that thunk, and None is
\* returned again only with head and thunks both empty.
C18_Revived ==
    (/\ pc = "idle"
     /\ Len(out) >= 2
     /\ out[Len(out) - 1] = None
     /\ CallsAfter(Len(out) - 1) # <<>>) =>
        LET late   == CallsAfter(Len(out) - 1)
            pushes == SelectSeq(late, LAMBDA o : o.op = "push")
            defers == SelectSeq(late, LAMBDA o : o.op # "push")
            last   == out[Len(out)]
        IN  /\ mark.head = [i \in 1..Len(pushes) |-> pushes[i].a[1]]
            /\ Len(mark.thunks) = Len(defers)
            /\ pushes # <<>> =>
                  /\ last = Some(pushes[1].a[1])
                  /\ Len(forced) = mark.forced
            /\ pushes = <<>> =>
                  /\ Len(forced) > mark.forced
                  /\ forced[mark.forced + 1] = mark.thunks[1].id
                  /\ mark.thunks[1].value.a = defers[1].a
            /\ (last = None /\ CallsAfter(Len(out)) = <<>>) =>
                  head = <<>> /\ thunks = <<>>

C18_Witness ==
    /\ pc = "idle"
    /\ Len(ext) = 1 /\ ext[1].op = "push_map" /\ ext[1].at = 1
    /\ Len(ext[1].a) = 2
    /\ Len(out) = 4
    /\ out[1] = None /\ out[2] # None /\ out[3] # None /\ out[4] = None

\* C19: the values returned so far followed by head are the values ever
\* appended to head, in append order: none is lost or delivered twice, and a
\* next() call returning Some removes exactly one element from head.
C19_Conserved ==
    /\ Len(appended) = Len(Returned) + Len(head)
    /\ \A i \in DOMAIN appended :
          appended[i] = IF i <= Len(Returned) THEN Returned[i]
                        ELSE head[i - Len(Returned)]

C19_Step ==
    IF out' # out
    THEN /\ Len(out') = Len(out) + 1
         /\ SubSeq(out', 1, Len(out)) = out
         /\ IF out'[Len(out')] # None
            THEN head = out'[Len(out')] \o head'
            ELSE head = <<>> /\ head' = <<>>
    ELSE IsPrefix(head, head')

C19_ValueConservation == [](C19_Conserved) /\ [][C19_Step]_vars

C19_Witness ==
    /\ pc = "idle"
    /\ Len(Returned) = 1
    /\ Len(head) = 1
    /\ Len(forced) = 1
    /\ ext[Len(ext)].op = "push" /\ ext[Len(ext)].at = 1

\* the elements of x and y taken in turn, x first, then what is left of the
\* longer one
RECURSIVE Interleave(_, _)
Interleave(x, y) ==
    IF x = <<>> THEN y ELSE <<Head(x)>> \o Interleave(y, Tail(x))

\* C20: after push_map(s1, f) and push_map(s2, g) on an empty sequence,
\* next() returns f(s1[1]), g(s2[1]), f(s1[2]), g(s2[2]), ... in turn while
\* both sources have elements, then the rest of the longer source in order.
C20_Interleaved ==
    (/\ Len(ext) = 2
     /\ ext[1].op = "push_map" /\ ext[2].op = "push_map"
     /\ SeededOnly) =>
        Delivers(Interleave(MapImage(ext[1].a, ext[1].f),
                            MapImage(ext[2].a, ext[2].f)))

C20_Witness ==
    /\ ext = <<Logged(PushMapOp(<<1, 2>>, "double"), 0),
               Logged(PushMapOp(<<2>>, "succ"), 0)>>
    /\ out = <<Some(2), Some(3), Some(4), None>>

====
